---- MODULE Spec2Model ----
(***************************************************************************)
(* Model of lib/ansible/modules/network/enos/enos_config.py: one           *)
(* execution of main() -- argument validation, optional backup, candidate  *)
(* construction, diff or bypass, command assembly and push.                *)
(*                                                                         *)
(* Optional parameters are encoded as sequences: None is <<>> and          *)
(* Some(x) is <<x>>.  A configuration text is a sequence of raw lines      *)
(* [ind, text]; a parsed configuration is a sequence of items              *)
(* [text, parents].                                                        *)
(***************************************************************************)
EXTENDS Integers, Sequences, FiniteSets, TLC

VARIABLES params, check_mode, device, pc, result, log, candidate,
          candFailed, updates, dumped, commands

vars == <<params, check_mode, device, pc, result, log, candidate,
          candFailed, updates, dumped, commands>>

\* ---------------------------------------------------------------- bounds
MaxLines == 2
MaxIndent == 1

\* ------------------------------------------------------------- encodings
None == <<>>
Some(x) == <<x>>
IsGiven(o) == Len(o) > 0
Val(o) == o[1]
\* Python truthiness of an optional list or string parameter
Truthy(o) == IsGiven(o) /\ Len(Val(o)) > 0

Texts == {"a", "b"}
CommentToken == "!"
NL == "\n"

SeqsUpTo(S, n) == UNION {[1..k -> S] : k \in 0..n}

RawLines == [ind : 0..MaxIndent, text : Texts \cup {CommentToken}]
ConfigTexts == SeqsUpTo(RawLines, MaxLines)

Item(t, ps) == [text |-> t, parents |-> ps]
ItemTexts(items) == [i \in 1..Len(items) |-> items[i].text]
Front(s) == SubSeq(s, 1, Len(s) - 1)
IsPrefix(p, s) == Len(p) <= Len(s) /\ SubSeq(s, 1, Len(p)) = p

\* ------------------------------------------- NetworkConfig (parse, build)
RECURSIVE PopDeeper(_, _)
PopDeeper(stack, ind) ==
    IF stack # <<>> /\ stack[Len(stack)].ind > ind
    THEN PopDeeper(Front(stack), ind)
    ELSE stack

ignore_line(l) == l.text = CommentToken

RECURSIVE ParseFrom(_, _, _, _)
ParseFrom(lines, i, stack, items) ==
    IF i > Len(lines) THEN [ok |-> TRUE, items |-> items]
    ELSE LET l == lines[i]
             st == PopDeeper(stack, l.ind)
             popped == Len(st) < Len(stack)
         IN  IF ignore_line(l) THEN ParseFrom(lines, i + 1, stack, items)
             ELSE IF st = <<>>
             THEN IF popped THEN [ok |-> FALSE, items |-> <<>>]
                  ELSE ParseFrom(lines, i + 1, <<l>>,
                                 Append(items, Item(l.text, <<>>)))
             ELSE IF st[Len(st)].ind = l.ind
             THEN ParseFrom(lines, i + 1, Append(Front(st), l),
                            Append(items, Item(l.text, ItemTexts(Front(st)))))
             ELSE IF popped THEN [ok |-> FALSE, items |-> <<>>]
             ELSE ParseFrom(lines, i + 1, Append(st, l),
                            Append(items, Item(l.text, ItemTexts(st))))

parse(text) == ParseFrom(text, 1, <<>>, <<>>)

\* NetworkConfig.add(lines, parents): the parent chain, then the lines
build(lines, parents) ==
    [k \in 1..Len(parents) |-> Item(parents[k], SubSeq(parents, 1, k - 1))]
    \o [k \in 1..Len(lines) |-> Item(lines[k], parents)]

\* str(NetworkConfig): one raw line per item, indented by its depth
serialize(items) ==
    [i \in 1..Len(items) |->
        [ind |-> Len(items[i].parents), text |-> items[i].text]]

WellFormedTexts == {t \in ConfigTexts : parse(t).ok}

\* --------------------------------------------- NetworkConfig.difference
\* the lines of a tree that lie under the parent path
Narrow(items, path) ==
    SelectSeq(items, LAMBDA x : IsPrefix(path, x.parents))

\* the ordered child sequence of the block with the given parents
Siblings(items, ps) == SelectSeq(items, LAMBDA x : x.parents = ps)

Ordinal(items, i) ==
    Cardinality({j \in 1..i : items[j].parents = items[i].parents})

_diff_line(cs, rs, i) == ~ \E j \in 1..Len(rs) : rs[j] = cs[i]

_diff_strict(cs, rs, i) ==
    LET k == Ordinal(cs, i)
        sib == Siblings(rs, cs[i].parents)
    IN  ~ (k <= Len(sib) /\ sib[k].text = cs[i].text)

_diff_exact(cs, rs, i) ==
    ItemTexts(Siblings(cs, cs[i].parents))
        # ItemTexts(Siblings(rs, cs[i].parents))

Differs(cs, rs, i, match) ==
    CASE match = "line" -> _diff_line(cs, rs, i)
      [] match = "strict" -> _diff_strict(cs, rs, i)
      [] match = "exact" -> _diff_exact(cs, rs, i)

\* replace=block emits the whole candidate block a differing line lives in
Emitted(cs, rs, i, match, replace) ==
    IF replace = "block"
    THEN \E j \in 1..Len(cs) : /\ Differs(cs, rs, j, match)
                               /\ IsPrefix(cs[j].parents, cs[i].parents)
    ELSE Differs(cs, rs, i, match)

Ancestors(item) ==
    [k \in 1..Len(item.parents) |->
        Item(item.parents[k], SubSeq(item.parents, 1, k - 1))]

InSeq(x, s) == \E j \in 1..Len(s) : s[j] = x

\* each emitted line preceded by those of its ancestors not yet in the output
RECURSIVE Expand(_, _, _)
Expand(sel, i, out) ==
    IF i > Len(sel) THEN out
    ELSE LET anc == Ancestors(sel[i])
             new == SelectSeq(anc, LAMBDA a : ~ InSeq(a, out))
         IN  Expand(sel, i + 1, Append(out \o new, sel[i]))

\* the lines of cs whose index is in idx, in the order of cs
RECURSIVE Pick(_, _, _)
Pick(cs, idx, i) ==
    IF i > Len(cs) THEN <<>>
    ELSE (IF i \in idx THEN <<cs[i]>> ELSE <<>>) \o Pick(cs, idx, i + 1)

difference(cand, running, path, match, replace) ==
    LET cs == Narrow(cand, path)
        rs == Narrow(running, path)
        idx == {i \in 1..Len(cs) : Emitted(cs, rs, i, match, replace)}
    IN  Expand(Pick(cs, idx, 1), 1, <<>>)

\* ------------------------------------------------ dumps(..., 'commands')
RECURSIVE JoinNL(_)
JoinNL(ts) ==
    IF ts = <<>> THEN <<>>
    ELSE IF Len(ts) = 1 THEN ts
    ELSE <<ts[1], NL>> \o JoinNL(Tail(ts))

dumps(items) == JoinNL(ItemTexts(items))

\* str.split('\n') on a joined command string; ''.split('\n') is ['']
RECURSIVE SplitNL(_, _)
SplitNL(toks, cur) ==
    IF toks = <<>> THEN <<cur>>
    ELSE IF toks[1] = NL THEN <<cur>> \o SplitNL(Tail(toks), "")
    ELSE SplitNL(Tail(toks), toks[1])

split(toks) == SplitNL(toks, "")

\* ------------------------------------------------- argument validation
mutually_exclusive == {{"lines", "src"}}

required_if_no_config == {<<"match", "strict", "lines">>,
                          <<"match", "exact", "lines">>,
                          <<"replace", "block", "lines">>}

required_if == {<<"match", "strict", "lines">>,
                <<"match", "exact", "lines">>,
                <<"replace", "block", "lines">>,
                <<"replace", "config", "src">>}

\* AnsibleModule._check_mutually_exclusive / _check_required_if
ArgsRejected(p) ==
    \/ \E grp \in mutually_exclusive :
          Cardinality({k \in grp : IsGiven(p[k])}) > 1
    \/ \E r \in required_if : p[r[1]] = r[2] /\ ~ IsGiven(p[r[3]])

\* ------------------------------------------------------ helpers of run()
GetConfig(who) == [op |-> "get_config", by |-> who, arg |-> <<>>]
LoadConfig(cmds) == [op |-> "load_config", by |-> "run", arg |-> cmds]

DoBackupInverted(backup) == ~ backup

DoBackup(backup) == backup

NeedFetchAlways(config) == TRUE

\* get_running_config: "if not contents"
NeedFetch(config) == ~ Truthy(config)

get_candidate(p) ==
    IF IsGiven(p.src)
    THEN \* loadfp(src), or load(src) when src is not a readable file
         parse(Val(p.src).text)
    ELSE IF Truthy(p.lines)
    THEN [ok |-> TRUE,
          items |-> build(Val(p.lines),
                          IF Truthy(p.parents) THEN Val(p.parents) ELSE <<>>)]
    ELSE [ok |-> TRUE, items |-> <<>>]

CandidateOutcomeSwallow(ok) == "compute"

\* no handler around get_candidate: an exception leaves run() and main()
CandidateOutcome(ok) == IF ok THEN "compute" ELSE "failed"

UseDiffMatchOnly(match, replace) == match # "none"

UseDiffInverted(match, replace) == match # "none" /\ replace = "config"

UseDiff(match, replace) == match # "none" /\ replace # "config"

Reverse(s) == [i \in 1..Len(s) |-> s[Len(s) + 1 - i]]

BypassCommandsUnordered(items) == Reverse(items)

BypassCommands(items) == items

Path(p) == IF IsGiven(p.parents) THEN Val(p.parents) ELSE <<>>

HasCommandsAlways(items) == TRUE

HasCommands(items) == items # <<>>

CandidateSupplied(p) == Truthy(p.lines) \/ IsGiven(p.src)

AssembleAppendBefore(cmds, p) ==
    IF CandidateSupplied(p)
    THEN cmds \o (IF Truthy(p.before) THEN Val(p.before) ELSE <<>>)
              \o (IF Truthy(p.after) THEN Val(p.after) ELSE <<>>)
    ELSE cmds

\* commands[:0] = before; commands.extend(after)
Assemble(cmds, p) ==
    IF CandidateSupplied(p)
    THEN (IF Truthy(p.before) THEN Val(p.before) ELSE <<>>)
         \o cmds
         \o (IF Truthy(p.after) THEN Val(p.after) ELSE <<>>)
    ELSE cmds

\* ------------------------------------------------------------- inputs
GoodText == <<[ind |-> 0, text |-> CommentToken],
              [ind |-> 0, text |-> "a"], [ind |-> 1, text |-> "b"]>>
BadText == <<[ind |-> 1, text |-> "a"], [ind |-> 0, text |-> "b"]>>
OtherText == <<[ind |-> 0, text |-> "b"]>>

Matches == {"line", "strict", "exact", "none"}
Replaces == {"line", "block", "config"}

Params(s, l, ps, b, a, m, r, c, bk) ==
    [src |-> s, lines |-> l, parents |-> ps, before |-> b, after |-> a,
     match |-> m, replace |-> r, config |-> c, backup |-> bk]

File(t) == Some([isfile |-> TRUE, text |-> t])
Inline(t) == Some([isfile |-> FALSE, text |-> t])

\* every control parameter, a few configurations
InitControl ==
    /\ \E s \in {None, File(GoodText), Inline(BadText)},
          l \in {None, Some(<<>>), Some(<<"a", "b">>)},
          ps \in {None, Some(<<"a">>)},
          b \in {None, Some(<<>>), Some(<<"enable">>)},
          a \in {None, Some(<<"end">>)},
          m \in Matches, r \in Replaces,
          c \in {None, Some(<<>>), Some(GoodText), Some(BadText)},
          bk \in BOOLEAN :
          params = Params(s, l, ps, b, a, m, r, c, bk)
    /\ check_mode \in BOOLEAN
    /\ device \in {GoodText, OtherText}

\* every candidate file against every running configuration
InitFile ==
    /\ \E t \in ConfigTexts, ps \in {None, Some(<<"a">>)},
          m \in Matches, r \in Replaces :
          params = Params(File(t), None, ps, None, None, m, r, None, FALSE)
    /\ check_mode = FALSE
    /\ device \in WellFormedTexts

\* every inline command list against every running configuration
InitInline ==
    /\ \E l \in SeqsUpTo(Texts, MaxLines) \ {<<>>},
          ps \in {None, Some(<<"a">>), Some(<<"a", "b">>)},
          m \in Matches, r \in Replaces :
          params = Params(None, Some(l), ps, None, None, m, r, None, FALSE)
    /\ check_mode = FALSE
    /\ device \in WellFormedTexts

Init ==
    /\ InitControl \/ InitFile \/ InitInline
    /\ pc = "start"
    /\ result = [changed |-> FALSE, warnings |-> <<>>]
    /\ log = <<>>
    /\ candidate = <<>>
    /\ candFailed = FALSE
    /\ updates = <<>>
    /\ dumped = <<>>
    /\ commands = <<>>

\* ------------------------------------------------------------- actions
\* AnsibleModule(...): fail_json on an invalid combination
ModuleInit ==
    /\ pc = "start"
    /\ pc' = IF ArgsRejected(params) THEN "failed" ELSE "backup"
    /\ UNCHANGED <<params, check_mode, device, result, log, candidate,
                   candFailed, updates, dumped, commands>>

\* if module.params['backup']: result['__backup__'] = get_config(module)
Backup ==
    /\ pc = "backup"
    /\ IF DoBackup(params.backup)
       THEN /\ log' = Append(log, GetConfig("main"))
            /\ result' = ("__backup__" :> device) @@ result
       ELSE UNCHANGED <<log, result>>
    /\ pc' = "run"
    /\ UNCHANGED <<params, check_mode, device, candidate, candFailed,
                   updates, dumped, commands>>

\* candidate = get_candidate(module)
GetCandidate ==
    /\ pc = "run"
    /\ LET c == get_candidate(params)
       IN  /\ candidate' = c.items
           /\ candFailed' = ~ c.ok
           /\ pc' = CandidateOutcome(c.ok)
    /\ UNCHANGED <<params, check_mode, device, result, log, updates,
                   dumped, commands>>

\* the diff branch or the bypass of run()
ComputeCommands ==
    /\ pc = "compute"
    /\ IF UseDiff(params.match, params.replace)
       THEN LET fetch == NeedFetch(params.config)
                text == IF fetch THEN device ELSE Val(params.config)
                contents == parse(text)
                configobj == parse(serialize(contents.items))
            IN  /\ log' = IF fetch
                          THEN Append(log, GetConfig("get_running_config"))
                          ELSE log
                /\ IF contents.ok /\ configobj.ok
                   THEN /\ updates' = difference(candidate, configobj.items,
                                                 Path(params), params.match,
                                                 params.replace)
                        /\ pc' = "push"
                   ELSE /\ updates' = updates
                        /\ pc' = "failed"
       ELSE /\ updates' = BypassCommands(candidate)
            /\ pc' = "push"
            /\ log' = log
    /\ UNCHANGED <<params, check_mode, device, result, candidate,
                   candFailed, dumped, commands>>

\* if commands: dumps, before/after, load_config, result
AssembleAndPush ==
    /\ pc = "push"
    /\ IF HasCommands(updates)
       THEN LET text == split(dumps(updates))
                cmds == Assemble(text, params)
                res1 == IF CandidateSupplied(params)
                        THEN ("commands" :> cmds) @@ result
                        ELSE result
            IN  /\ dumped' = text
                /\ commands' = cmds
                /\ log' = Append(log, LoadConfig(cmds))
                /\ \E diff \in {"", "diff"} :
                      result' = IF diff # ""
                                THEN ("diff" :> [prepared |-> diff])
                                     @@ [res1 EXCEPT !.changed = TRUE]
                                ELSE res1
       ELSE UNCHANGED <<dumped, commands, log, result>>
    /\ pc' = "exit"
    /\ UNCHANGED <<params, check_mode, device, candidate, candFailed,
                   updates>>

\* module.exit_json(**result)
ExitJson ==
    /\ pc = "exit"
    /\ pc' = "done"
    /\ UNCHANGED <<params, check_mode, device, result, log, candidate,
                   candFailed, updates, dumped, commands>>

Next ==
    \/ ModuleInit
    \/ Backup
    \/ GetCandidate
    \/ ComputeCommands
    \/ AssembleAndPush
    \/ ExitJson

Spec == Init /\ [][Next]_vars

\* ------------------------------------------------------------ properties
OrEmpty(o) == IF IsGiven(o) THEN Val(o) ELSE <<>>
Pushes == SelectSeq(log, LAMBDA e : e.op = "load_config")
Called(op, who) == \E i \in 1..Len(log) : log[i].op = op /\ log[i].by = who
RunFinished == pc \in {"exit", "done"}
Computed == pc \in {"push", "exit", "done"}
ParentOf(item) ==
    Item(item.parents[Len(item.parents)], Front(item.parents))

RECURSIVE IsSubSeq(_, _)
IsSubSeq(s, t) ==
    IF s = <<>> THEN TRUE
    ELSE IF t = <<>> THEN FALSE
    ELSE IF s[1] = t[1] THEN IsSubSeq(Tail(s), Tail(t))
    ELSE IsSubSeq(s, Tail(t))

\* the running configuration the module would compare against
RunningText ==
    IF Truthy(params.config) THEN Val(params.config) ELSE device
RunningEqualsCandidate ==
    parse(RunningText).ok /\ parse(RunningText).items = candidate

InvalidCombination(p) ==
    \/ p.replace = "block" /\ ~ IsGiven(p.lines)
    \/ p.match \in {"strict", "exact"} /\ ~ IsGiven(p.lines)
    \/ p.replace = "config" /\ ~ IsGiven(p.src)
    \/ IsGiven(p.lines) /\ IsGiven(p.src)

\* C1: when the computed command list is non-empty and the candidate came
\* from lines or src, the list given to load_config and stored in
\* result['commands'] is before ++ serialized diff commands ++ after, a
\* missing before/after contributing nothing.
C1_Assembled ==
    (RunFinished /\ updates # <<>>
        /\ (Truthy(params.lines) \/ IsGiven(params.src)))
    => /\ dumped = ItemTexts(updates)
       /\ Len(Pushes) = 1
       /\ Pushes[1].arg
            = OrEmpty(params.before) \o dumped \o OrEmpty(params.after)
       /\ "commands" \in DOMAIN result
       /\ result["commands"] = Pushes[1].arg
       /\ (params.before = Some(<<"enable">>)
              => Pushes[1].arg[1] = "enable")
       /\ (params.after = Some(<<"end">>)
              => Pushes[1].arg[Len(Pushes[1].arg)] = "end")

C1_Witness ==
    /\ pc = "done" /\ Len(updates) >= 2
    /\ params.before = Some(<<"enable">>) /\ params.after = Some(<<"end">>)
    /\ Len(Pushes) = 1 /\ Pushes[1].arg[1] = "enable"

\* C2: an empty computed command list means no modification: load_config
\* is not invoked, before/after are not emitted, result has no 'commands'
\* or 'diff' key and result['changed'] stays False.
C2_NoChange ==
    (RunFinished /\ updates = <<>>)
    => /\ Pushes = <<>>
       /\ commands = <<>>
       /\ "commands" \notin DOMAIN result
       /\ "diff" \notin DOMAIN result
       /\ result["changed"] = FALSE

C2_Witness ==
    /\ pc = "done" /\ updates = <<>> /\ candidate # <<>>
    /\ Truthy(params.before) /\ Truthy(params.after)
    /\ Pushes = <<>>

\* C3: with match=none or replace=config the command set is the whole
\* candidate whatever the running configuration is, run() does not consult
\* the running-config provider, and the pushed list depends on the
\* candidate, before and after only.
C3_Bypass ==
    (Computed /\ (params.match = "none" \/ params.replace = "config"))
    => /\ updates = candidate
       /\ ~ Called("get_config", "get_running_config")
       /\ (RunFinished /\ candidate # <<>>
             => /\ Len(Pushes) = 1
                /\ Pushes[1].arg = OrEmpty(params.before)
                                   \o ItemTexts(candidate)
                                   \o OrEmpty(params.after))

C3_Witness ==
    /\ pc = "done" /\ params.replace = "config" /\ params.match = "line"
    /\ ~ IsGiven(params.config) /\ candidate # <<>>
    /\ RunningEqualsCandidate /\ Len(Pushes) = 1

\* C4 (as stated): for every valid (match, replace) combination a candidate
\* equal to the running configuration yields an empty command list.
C4_IdempotentAll ==
    (Computed /\ RunningEqualsCandidate) => updates = <<>>

\* C4 (amended): for match in {line, strict, exact} and replace in
\* {line, block} a candidate equal to the running configuration yields an
\* empty command list and nothing is pushed.
C4_Idempotent ==
    (Computed /\ RunningEqualsCandidate
        /\ params.match \in {"line", "strict", "exact"}
        /\ params.replace \in {"line", "block"})
    => updates = <<>> /\ Pushes = <<>>

C4_Witness ==
    /\ pc = "done" /\ params.match = "strict" /\ params.replace = "block"
    /\ Len(candidate) >= 2 /\ RunningEqualsCandidate /\ updates = <<>>

\* C5: an incompatible policy/source combination fails in argument
\* validation; neither get_config nor load_config is ever called, also
\* when backup is requested.
C5_RejectedEarly ==
    InvalidCombination(params) => pc \in {"start", "failed"} /\ log = <<>>

C5_Witness ==
    /\ pc = "failed" /\ params.replace = "config" /\ ~ IsGiven(params.src)
    /\ params.backup /\ log = <<>>

\* C6 (as stated): when building the candidate fails, no get_config and no
\* load_config call has happened before the failure or happens after it.
C6_NoDeviceCallOnMalformed ==
    candFailed => log = <<>>

\* C6 (amended): when building the candidate fails, main() stops there: no
\* load_config call is ever made and run() fetches no running-config; the
\* only device call is the backup get_config made by main() before run(),
\* and only when backup is requested.
C6_NoPushOnMalformed ==
    candFailed
    => /\ pc = "failed"
       /\ log = IF params.backup THEN <<GetConfig("main")>> ELSE <<>>

C6_Witness ==
    /\ candFailed /\ pc = "failed" /\ params.backup
    /\ log = <<GetConfig("main")>>

\* C7: with backup requested, the get_config call whose text is stored in
\* result['__backup__'] precedes every load_config call and is made whether
\* or not commands are pushed; without backup there is no '__backup__' key.
C7_BackupFirst ==
    /\ (params.backup /\ pc \in {"run", "compute", "push", "exit", "done"})
         => /\ "__backup__" \in DOMAIN result
            /\ result["__backup__"] = device
            /\ log # <<>> /\ log[1] = GetConfig("main")
    /\ \A i \in 1..Len(log) :
         (params.backup /\ log[i].op = "load_config")
            => \E j \in 1..(i - 1) : log[j] = GetConfig("main")
    /\ ~ params.backup
         => /\ "__backup__" \notin DOMAIN result
            /\ ~ Called("get_config", "main")

C7_Witness ==
    /\ pc = "done" /\ params.backup /\ Pushes = <<>>
    /\ result["__backup__"] = device /\ log[1] = GetConfig("main")

\* C8: in every command list produced from the candidate, under every
\* policy including the bypass, a parent line precedes its child lines and
\* the emitted lines keep the candidate's depth-first order.
C8_OrderPreserved ==
    /\ Computed
         => /\ \A j \in 1..Len(updates) :
                 updates[j].parents # <<>>
                    => \E i \in 1..(j - 1) : updates[i] = ParentOf(updates[j])
            /\ IsSubSeq(updates, candidate)
    /\ (RunFinished /\ updates # <<>>)
         => SubSeq(commands, Len(OrEmpty(params.before)) + 1,
                   Len(commands) - Len(OrEmpty(params.after)))
              = ItemTexts(updates)

C8_Witness ==
    /\ pc = "done" /\ params.match = "strict"
    /\ Len(updates) < Len(candidate)
    /\ \E j \in 1..Len(updates) : updates[j].parents # <<>>

\* C9: a non-empty config parameter is the base of the comparison and
\* run() then never calls get_config; get_running_config calls get_config
\* only when config is absent or empty and only on the diffing path.
C9_ConfigParam ==
    /\ Truthy(params.config) => ~ Called("get_config", "get_running_config")
    /\ Called("get_config", "get_running_config")
         => /\ ~ Truthy(params.config)
            /\ params.match # "none" /\ params.replace # "config"
    /\ \A i \in 1..Len(log) :
         log[i].op = "get_config" => log[i].by # "run"
    /\ (Computed /\ Truthy(params.config)
          /\ params.match # "none" /\ params.replace # "config")
         => updates = difference(candidate, parse(Val(params.config)).items,
                                 Path(params), params.match, params.replace)

C9_Witness ==
    /\ pc = "done" /\ Truthy(params.config)
    /\ params.match = "line" /\ params.replace = "line"
    /\ Val(params.config) # device /\ updates # <<>>
    /\ ~ Called("get_config", "get_running_config")

\* C10: in check mode run() never invokes load_config.
C10_CheckModeNoPush ==
    check_mode => Pushes = <<>>
====
